---- MODULE Spec2Model ----
(***************************************************************************)
(* A model of statsite's connection handler (src/src/conn_handler.c):      *)
(*   - the double-buffered flush protocol around GLOBAL_METRICS             *)
(*     (flush_interval_trigger, final_flush, flush_thread) run against      *)
(*     ingress threads that call metrics_add_sample(GLOBAL_METRICS, ...);   *)
(*   - the text and binary parsers driven by handle_client_connect over a   *)
(*     connection buffer that fills in chunks.                              *)
(* The registry (metrics.c) and the connection buffer (networking.c) are    *)
(* not part of conn_handler.c; they are modelled by their contract.         *)
(***************************************************************************)
EXTENDS Integers, Sequences, FiniteSets, TLC

(* ------------------------------ bounds --------------------------------- *)
NumThreads == 2        \* ingress threads, each delivering one accepted sample
MaxRotations == 1      \* calls of flush_interval_trigger before shutdown
MaxTicks == 2          \* seconds the clock advances
MaxValueLen == 2       \* bytes in the value field of a generated text line
MaxRecords == 2        \* records in a generated multi-record stream
MaxGaugeLines == 3     \* lines in a generated stream of gauge samples
MaxMetrics == 2        \* metrics in a registry handed to the serializer
MaxBins == 3           \* num_bins of a histogram config
MaxFailAt == 20        \* the latest write to the sink that may fail

(* ----------------------------- constants ------------------------------- *)
NULL == 0              \* the null metrics pointer

Threads == 1..NumThreads
\* One registry is made by init_conn_handler and one by every rotation;
\* registry r is the one allocated by rotation r-1.
Regs == 1..(MaxRotations + 1)

VARIABLES
    \* ---- flush protocol ----
    GLOBAL_METRICS,   \* the current registry, or NULL
    input_counter,    \* GLOBAL_CONFIG->input_counter is set
    regState,         \* per registry: "free" | "new" | "live" | "destroyed"
    contents,         \* per registry: the samples (by thread) folded into it
    icount,           \* per registry: the count of the input counter
    ctlPc,            \* position of the thread calling the flush controller
    ctl_m,            \* flush_interval_trigger's local m
    ctl_old,          \* flush_interval_trigger's / final_flush's local old
    calls,            \* calls of flush_interval_trigger started
    rotations,        \* rotation calls (either kind) returned
    workers,          \* flush threads, in order of pthread_create
    thrPc,            \* per ingress thread: position in the handler
    thrPtr,           \* per ingress thread: the value read from GLOBAL_METRICS
    fault,            \* the process crashed on an invalid access
    now,              \* the clock gettimeofday reads (seconds)
    \* ---- history (read by no action) ----
    thrEpoch,         \* per thread: rotations returned when its delivery began
    swap_ts,          \* the clock when GLOBAL_METRICS was last swapped
    \* ---- one connection ----
    input,            \* the byte stream the client sends on the connection
    delivered,        \* how many of its bytes have reached the buffer
    conn_buf,         \* handle->conn: bytes buffered and not yet consumed
    reglog,           \* the registry calls the connection has made, in order
    conn_ret,         \* what handle_client_connect last returned
    parser_used,      \* the parser its last invocation ran
    \* ---- one flush thread serializing one retired registry ----
    fmt_metrics,      \* the metrics of the registry, in iteration order
    binary_stream,    \* GLOBAL_CONFIG->binary_stream
    fail_at,          \* the write to the sink that fails (0: none does)
    fmt_pos,          \* callbacks made so far
    fmt_out,          \* per callback: the writes that reached the sink
    fmt_res,          \* the result of the last callback (0 before the first)
    fmt_pc,           \* "stream" | "destroy" | "done"
    fmt_destroyed     \* calls of destroy_metrics on the registry

flushVars == <<GLOBAL_METRICS, input_counter, regState, contents, icount, ctlPc,
               ctl_m, ctl_old, calls, rotations, workers, thrPc, thrPtr, fault,
               now, thrEpoch, swap_ts>>

connVars == <<input, delivered, conn_buf, reglog, conn_ret, parser_used>>

fmtVars == <<fmt_metrics, binary_stream, fail_at, fmt_pos, fmt_out, fmt_res, fmt_pc,
             fmt_destroyed>>

vars == <<flushVars, connVars, fmtVars>>

(* ------------------------- init_conn_handler --------------------------- *)
FlushInit ==
    /\ GLOBAL_METRICS = 1
    /\ input_counter \in BOOLEAN
    /\ regState = [r \in Regs |-> IF r = 1 THEN "live" ELSE "free"]
    /\ contents = [r \in Regs |-> {}]
    /\ icount = [r \in Regs |-> 0]
    /\ ctlPc = "idle"
    /\ ctl_m = NULL
    /\ ctl_old = NULL
    /\ calls = 0
    /\ rotations = 0
    /\ workers = <<>>
    /\ thrPc = [t \in Threads |-> "idle"]
    /\ thrPtr = [t \in Threads |-> NULL]
    /\ fault = FALSE
    /\ now = 0
    /\ thrEpoch = [t \in Threads |-> -1]
    /\ swap_ts = 0

(* --------------------------- flush controller -------------------------- *)
ctlLocals == <<ctl_m, ctl_old>>
regVars == <<regState, contents, icount>>
thrVars == <<thrPc, thrPtr>>
histVars == <<thrEpoch, swap_ts>>

\* flush_interval_trigger: malloc + init_metrics of the new registry
FitAlloc ==
    /\ ~fault
    /\ ctlPc = "idle"
    /\ calls < MaxRotations
    /\ ctl_m' = calls + 2
    /\ regState' = [regState EXCEPT ![calls + 2] = "new"]
    /\ contents' = [contents EXCEPT ![calls + 2] = {}]
    /\ icount' = [icount EXCEPT ![calls + 2] = 0]
    /\ calls' = calls + 1
    /\ ctlPc' = "fit_swap"
    /\ UNCHANGED <<connVars, fmtVars, now, GLOBAL_METRICS, input_counter, ctl_old, rotations, workers,
                   thrVars, fault, histVars>>

\* flush_interval_trigger: metrics *old = GLOBAL_METRICS; GLOBAL_METRICS = m
\* (one step: no other thread writes GLOBAL_METRICS while this one runs)
FitSwap ==
    /\ ~fault
    /\ ctlPc = "fit_swap"
    /\ ctl_old' = GLOBAL_METRICS
    /\ GLOBAL_METRICS' = ctl_m
    /\ regState' = [regState EXCEPT ![ctl_m] = "live"]
    /\ ctlPc' = "fit_create"
    /\ swap_ts' = now
    /\ UNCHANGED <<connVars, fmtVars, now, input_counter, contents, icount, ctl_m, calls, rotations,
                   workers, thrVars, fault, thrEpoch>>

\* A flush thread as pthread_create leaves it.
NewWorker(m, detached) ==
    [m |-> m, pc |-> "run", detached |-> detached, out |-> {}, ic |-> 0,
     tv |-> -1, swap |-> swap_ts]

\* A rotation that hands the new registry, not the retired one, to the thread.
FitCreateOnNew ==
    /\ ~fault
    /\ ctlPc = "fit_create"
    /\ workers' = Append(workers, NewWorker(ctl_m, TRUE))
    /\ rotations' = rotations + 1
    /\ ctlPc' = "idle"
    /\ UNCHANGED <<connVars, fmtVars, now, GLOBAL_METRICS, input_counter, regVars, ctlLocals, calls,
                   thrVars, fault, histVars>>

\* flush_interval_trigger: pthread_create(flush_thread, old); pthread_detach
FitCreate ==
    /\ ~fault
    /\ ctlPc = "fit_create"
    /\ workers' = Append(workers, NewWorker(ctl_old, TRUE))
    /\ rotations' = rotations + 1
    /\ ctlPc' = "idle"
    /\ UNCHANGED <<connVars, fmtVars, now, GLOBAL_METRICS, input_counter, regVars, ctlLocals, calls,
                   thrVars, fault, histVars>>

\* A final_flush that leaves GLOBAL_METRICS pointing at the last registry.
FinalSwapKeepsPointer ==
    /\ ~fault
    /\ ctlPc = "idle"
    /\ ctl_old' = GLOBAL_METRICS
    /\ ctlPc' = "ff_create"
    /\ swap_ts' = now
    /\ UNCHANGED <<connVars, fmtVars, now, GLOBAL_METRICS, input_counter, regVars, ctl_m, calls,
                   rotations, workers, thrVars, fault, thrEpoch>>

\* final_flush: metrics *old = GLOBAL_METRICS; GLOBAL_METRICS = NULL
FinalSwap ==
    /\ ~fault
    /\ ctlPc = "idle"
    /\ ctl_old' = GLOBAL_METRICS
    /\ GLOBAL_METRICS' = NULL
    /\ ctlPc' = "ff_create"
    /\ swap_ts' = now
    /\ UNCHANGED <<connVars, fmtVars, now, input_counter, regVars, ctl_m, calls, rotations, workers,
                   thrVars, fault, thrEpoch>>

\* final_flush: pthread_create(flush_thread, old)
FinalCreate ==
    /\ ~fault
    /\ ctlPc = "ff_create"
    /\ workers' = Append(workers, NewWorker(ctl_old, FALSE))
    /\ ctlPc' = "ff_join"
    /\ UNCHANGED <<connVars, fmtVars, now, GLOBAL_METRICS, input_counter, regVars, ctlLocals, calls,
                   rotations, thrVars, fault, histVars>>

\* A final_flush that does not wait for its thread (pthread_join left out).
FinalJoinNoWait ==
    /\ ~fault
    /\ ctlPc = "ff_join"
    /\ rotations' = rotations + 1
    /\ ctlPc' = "done"
    /\ UNCHANGED <<connVars, fmtVars, now, GLOBAL_METRICS, input_counter, regVars, ctlLocals, calls,
                   workers, thrVars, fault, histVars>>

\* final_flush: pthread_join(thread, NULL), then return
FinalJoin ==
    /\ ~fault
    /\ ctlPc = "ff_join"
    /\ workers[Len(workers)].pc = "done"
    /\ rotations' = rotations + 1
    /\ ctlPc' = "done"
    /\ UNCHANGED <<connVars, fmtVars, now, GLOBAL_METRICS, input_counter, regVars, ctlLocals, calls,
                   workers, thrVars, fault, histVars>>

(* ----------------------------- flush_thread ---------------------------- *)
\* flush_thread: gettimeofday(&tv, NULL), then
\* stream_to_command(m, &tv, cb, stream_cmd) walks registry m.
\* Walking a null or destroyed registry is an invalid access.
WorkerStream(w) ==
    /\ ~fault
    /\ workers[w].pc = "run"
    /\ LET m == workers[w].m IN
         IF m # NULL /\ regState[m] = "live"
         THEN /\ workers' = [workers EXCEPT ![w].pc = "streamed",
                                            ![w].tv = now,
                                            ![w].out = contents[m],
                                            ![w].ic = icount[m]]
              /\ fault' = FALSE
         ELSE /\ workers' = [workers EXCEPT ![w].pc = "streamed", ![w].tv = now]
              /\ fault' = TRUE
    /\ UNCHANGED <<connVars, fmtVars, now, GLOBAL_METRICS, input_counter, regVars, ctlPc, ctlLocals,
                   calls, rotations, thrVars, histVars>>

\* flush_thread: destroy_metrics(m); free(m)
WorkerDestroy(w) ==
    /\ ~fault
    /\ workers[w].pc = "streamed"
    /\ LET m == workers[w].m IN
         /\ regState' = [regState EXCEPT ![m] = "destroyed"]
         /\ contents' = [contents EXCEPT ![m] = {}]
         /\ icount' = [icount EXCEPT ![m] = 0]
    /\ workers' = [workers EXCEPT ![w].pc = "done"]
    /\ UNCHANGED <<connVars, fmtVars, now, GLOBAL_METRICS, input_counter, ctlPc, ctlLocals, calls,
                   rotations, thrVars, fault, histVars>>

(* ------------------------- clock and later calls ----------------------- *)
\* a second of wall-clock time passes
Tick ==
    /\ ~fault
    /\ now < MaxTicks
    /\ now' = now + 1
    /\ UNCHANGED <<connVars, fmtVars, GLOBAL_METRICS, input_counter, regVars, ctlPc, ctlLocals,
                   calls, rotations, workers, thrVars, fault, histVars>>

\* final_flush has returned and the controller is called once more
CallAfterFinal ==
    /\ ~fault
    /\ ctlPc = "done"
    /\ rotations < MaxRotations + 2
    /\ ctlPc' = "idle"
    /\ UNCHANGED <<connVars, fmtVars, now, GLOBAL_METRICS, input_counter, regVars, ctlLocals,
                   calls, rotations, workers, thrVars, fault, histVars>>

(* --------------------------- ingress threads --------------------------- *)
\* Where a write through the pointer m can land. A null registry takes no
\* sample (NULL). A destroyed registry is freed memory: the write faults (-1),
\* is lost in the freed block (NULL), or lands in a registry that malloc has
\* since placed there.
WriteTargets(m) ==
    IF m = NULL THEN {NULL}
    ELSE IF regState[m] = "destroyed"
    THEN {-1, NULL} \cup {r \in Regs : r > m /\ regState[r] \in {"new", "live"}}
    ELSE {m}

\* Thread t's delivery began after final_flush had returned.
Late(t) == ctlPc = "done" /\ thrEpoch[t] = rotations

\* Ingress threads are interchangeable: they are taken to start their
\* deliveries in the order of their numbers, and at most two deliveries are
\* in flight at a time (a third begins once the first of them has returned).
MayBegin(t) ==
    /\ thrPc[t] = "idle"
    /\ IF t = 1 THEN TRUE ELSE thrPc[t - 1] # "idle"
    /\ IF t <= 2 THEN TRUE ELSE thrPc[t - 2] = "done"

\* if (GLOBAL_CONFIG->input_counter) metrics_add_sample(GLOBAL_METRICS, ...):
\* the argument GLOBAL_METRICS is read
IcLoad(t) ==
    /\ ~fault
    /\ MayBegin(t)
    /\ input_counter
    /\ thrEpoch' = [thrEpoch EXCEPT ![t] = rotations]
    /\ thrPtr' = [thrPtr EXCEPT ![t] = GLOBAL_METRICS]
    /\ thrPc' = [thrPc EXCEPT ![t] = "ic_apply"]
    /\ UNCHANGED <<connVars, fmtVars, now, swap_ts, GLOBAL_METRICS, input_counter, regVars, ctlPc, ctlLocals,
                   calls, rotations, workers, fault>>

\* ... and metrics_add_sample(m, COUNTER, input_counter, 1) runs on it
IcApply(t) ==
    /\ ~fault
    /\ thrPc[t] = "ic_apply"
    /\ \E tgt \in WriteTargets(thrPtr[t]) :
         /\ icount' = IF tgt \in Regs THEN [icount EXCEPT ![tgt] = @ + 1]
                      ELSE icount
         /\ fault' = (tgt = -1)
    /\ thrPc' = [thrPc EXCEPT ![t] = "load"]
    /\ UNCHANGED <<connVars, fmtVars, now, swap_ts, GLOBAL_METRICS, input_counter, regState, contents, ctlPc,
                   ctlLocals, calls, rotations, workers, thrPtr, thrEpoch>>

\* metrics_add_sample(GLOBAL_METRICS, type, buf, val) / metrics_set_update:
\* the argument GLOBAL_METRICS is read
Load(t) ==
    /\ ~fault
    /\ IF input_counter
       THEN thrPc[t] = "load" /\ thrEpoch' = thrEpoch
       ELSE MayBegin(t) /\ thrEpoch' = [thrEpoch EXCEPT ![t] = rotations]
    /\ thrPtr' = [thrPtr EXCEPT ![t] = GLOBAL_METRICS]
    /\ thrPc' = [thrPc EXCEPT ![t] = "apply"]
    /\ UNCHANGED <<connVars, fmtVars, now, swap_ts, GLOBAL_METRICS, input_counter, regVars, ctlPc, ctlLocals,
                   calls, rotations, workers, fault>>

\* An add_sample that waits until no flush thread is running.
ApplyAfterFlush(t) ==
    /\ ~fault
    /\ thrPc[t] = "apply"
    /\ \A w \in DOMAIN workers : workers[w].pc = "done"
    /\ \E tgt \in WriteTargets(thrPtr[t]) :
         /\ contents' = IF tgt \in Regs
                        THEN [contents EXCEPT ![tgt] = @ \cup {t}]
                        ELSE contents
         /\ fault' = (tgt = -1)
    /\ thrPc' = [thrPc EXCEPT ![t] = "done"]
    /\ thrPtr' = [thrPtr EXCEPT ![t] = NULL]
    /\ UNCHANGED <<connVars, fmtVars, now, swap_ts, GLOBAL_METRICS, input_counter, regState, icount, ctlPc,
                   ctlLocals, calls, rotations, workers, thrEpoch>>

\* ... and the sample is folded into the registry the pointer names
Apply(t) ==
    /\ ~fault
    /\ thrPc[t] = "apply"
    /\ \E tgt \in WriteTargets(thrPtr[t]) :
         /\ contents' = IF tgt \in Regs
                        THEN [contents EXCEPT ![tgt] = @ \cup {t}]
                        ELSE contents
         /\ fault' = (tgt = -1)
    /\ thrPc' = [thrPc EXCEPT ![t] = "done"]
    /\ thrPtr' = [thrPtr EXCEPT ![t] = NULL]
    /\ UNCHANGED <<connVars, fmtVars, now, swap_ts, GLOBAL_METRICS, input_counter, regState, icount, ctlPc,
                   ctlLocals, calls, rotations, workers, thrEpoch>>

(* ======================= the connection handlers ======================= *)
(* ------------------------------- bytes --------------------------------- *)
BINARY_MAGIC_BYTE == 170
MAX_BINARY_HEADER_SIZE == 12
MIN_BINARY_HEADER_SIZE == 6
BIN_TYPE_KV == 1
BIN_TYPE_COUNTER == 2
BIN_TYPE_TIMER == 3
BIN_TYPE_SET == 4
BIN_TYPE_GAUGE == 5
BIN_TYPE_GAUGE_DELTA == 6
NUL == 0               \* '\0'
NL == 10               \* '\n'
Colon == 58            \* ':'
Pipe == 124            \* '|'
At == 64               \* '@'
Plus == 43             \* '+'
Minus == 45            \* '-'
Dot == 46              \* '.'
Ch_0 == 48             \* '0'
Ch_9 == 57             \* '9'
Ch_c == 99             \* 'c'
Ch_m == 109            \* 'm'
Ch_k == 107            \* 'k'
Ch_g == 103            \* 'g'
Ch_s == 115            \* 's'

(* ----------------------------- arithmetic ------------------------------ *)
\* A double is modelled as an exact fraction <<numerator, denominator>> in
\* lowest terms (rounding is not modelled).
RECURSIVE GCD(_, _)
GCD(a, b) == IF b = 0 THEN a ELSE GCD(b, a % b)
Abs(n) == IF n < 0 THEN -n ELSE n
Rat(n, d) == LET g == GCD(Abs(n), d) IN <<n \div g, d \div g>>
RECURSIVE Pow10(_)
Pow10(n) == IF n = 0 THEN 1 ELSE 10 * Pow10(n - 1)

(* --------------------------- string helpers ---------------------------- *)
\* memchr(buf + start, c, len): the first index holding c, or 0 for NULL
MemChr(buf, start, len, c) ==
    LET hits == {i \in start..(start + len - 1) : i <= Len(buf) /\ buf[i] = c}
    IN IF hits = {} THEN 0 ELSE CHOOSE i \in hits : \A j \in hits : i <= j

\* The C string that starts at index p of buf: the bytes before the next NUL.
RECURSIVE CStrLen(_, _)
CStrLen(buf, p) ==
    IF p > Len(buf) \/ buf[p] = NUL THEN 0 ELSE 1 + CStrLen(buf, p + 1)
CStr(buf, p) == SubSeq(buf, p, p + CStrLen(buf, p) - 1)

\* buffer_after_terminator: the terminator becomes NUL; on failure the
\* caller's after_len keeps its value.
buffer_after_terminator(buf, start, buf_len, terminator) ==
    LET term_addr == MemChr(buf, start, buf_len, terminator) IN
    IF term_addr = 0
    THEN [status |-> -1, buf |-> buf, after_term |-> 0, after_len |-> buf_len]
    ELSE [status |-> 0, buf |-> [buf EXCEPT ![term_addr] = NUL],
          after_term |-> term_addr + 1,
          after_len |-> buf_len - (term_addr - start + 1)]

(* ------------------------------ str2double ----------------------------- *)
IsDigit(b) == b >= Ch_0 /\ b <= Ch_9
\* the length of the run of digits that starts at p
RECURSIVE DigitRun(_, _)
DigitRun(buf, p) ==
    IF p <= Len(buf) /\ IsDigit(buf[p]) THEN 1 + DigitRun(buf, p + 1) ELSE 0
\* val = (val * 10.0) + (*s - '0') over the n digits that start at p
RECURSIVE DigitsVal(_, _, _)
DigitsVal(buf, p, n) ==
    IF n = 0 THEN 0
    ELSE DigitsVal(buf, p, n - 1) * 10 + (buf[p + n - 1] - Ch_0)

\* str2double(s, &end): the value and the index end points at
str2double(buf, s) ==
    LET neg == buf[s] = Minus
        s1 == IF neg THEN s + 1 ELSE s
        n1 == DigitRun(buf, s1)
        s2 == s1 + n1
        dot == s2 <= Len(buf) /\ buf[s2] = Dot
        n2 == IF dot THEN DigitRun(buf, s2 + 1) ELSE 0
        num == DigitsVal(buf, s1, n1) * Pow10(n2)
               + (IF dot THEN DigitsVal(buf, s2 + 1, n2) ELSE 0)
    IN [val |-> Rat(IF neg THEN -num ELSE num, Pow10(n2)),
        end |-> IF dot THEN s2 + 1 + n2 ELSE s2]

(* ----------------------- registry calls of a handler ------------------- *)
\* metrics_add_sample(GLOBAL_METRICS, COUNTER, input_counter, 1), if configured
InputCount(ic) ==
    IF ic THEN << [fn |-> "add_sample", ic |-> TRUE, type |-> "COUNTER",
                   key |-> <<>>, val |-> <<1, 1>>] >>
    ELSE <<>>
AddSample(type, key, val) ==
    [fn |-> "add_sample", ic |-> FALSE, type |-> type, key |-> key, val |-> val]
SetUpdate(key, member) ==
    [fn |-> "set_update", ic |-> FALSE, type |-> "SET", key |-> key, val |-> member]

(* ----------------------- handle_ascii_client_connect ------------------- *)
\* switch (*type_str)
AsciiType(ch) ==
    IF ch = Ch_c THEN "COUNTER"
    ELSE IF ch = Ch_m THEN "TIMER"
    ELSE IF ch = Ch_k THEN "KEY_VAL"
    ELSE IF ch = Ch_g THEN "GAUGE"
    ELSE IF ch = Ch_s THEN "SET"
    ELSE "UNKNOWN"

\* A gauge switch that stops after '+' (a break before case '-').
GaugeSwitchBreak(buf, val_str) ==
    IF buf[val_str] = Plus THEN [type |-> "GAUGE", val_str |-> val_str + 1]
    ELSE IF buf[val_str] = Minus THEN [type |-> "GAUGE_DELTA", val_str |-> val_str]
    ELSE [type |-> "GAUGE", val_str |-> val_str]

\* A gauge switch that never selects GAUGE_DELTA.
GaugeSwitchNoDelta(buf, val_str) ==
    IF buf[val_str] = Plus THEN [type |-> "GAUGE", val_str |-> val_str + 1]
    ELSE [type |-> "GAUGE", val_str |-> val_str]

\* case 'g': switch (*val_str): '+' advances val_str and falls through to
\* '-', which sets GAUGE_DELTA
GaugeSwitch(buf, val_str) ==
    IF buf[val_str] = Plus THEN [type |-> "GAUGE_DELTA", val_str |-> val_str + 1]
    ELSE IF buf[val_str] = Minus THEN [type |-> "GAUGE_DELTA", val_str |-> val_str]
    ELSE [type |-> "GAUGE", val_str |-> val_str]

\* A scaling that is applied for every non-zero rate (no range check).
MagnifyAnyRate(val, rate) ==
    IF rate[1] # 0
    THEN Rat(val[1] * rate[2] * (IF rate[1] < 0 THEN -1 ELSE 1), val[2] * Abs(rate[1]))
    ELSE val

\* sample_rate > 0 && sample_rate <= 1 ? val * (1.0 / sample_rate) : val
Magnify(val, rate) ==
    IF rate[1] > 0 /\ rate[1] <= rate[2]
    THEN Rat(val[1] * rate[2], val[2] * rate[1])
    ELSE val

\* The part of one command after its type is known (lines 383-414).
AsciiStore(buf, type, val_str, type_str, after_len, ic) ==
    IF type = "SET"
    THEN [status |-> 0, ops |-> InputCount(ic) \o <<SetUpdate(CStr(buf, 1), CStr(buf, val_str))>>]
    ELSE
    LET v == str2double(buf, val_str) IN
    IF v.end = val_str THEN [status |-> -1, ops |-> InputCount(ic)]
    ELSE
    LET at == IF type = "COUNTER"
              THEN buffer_after_terminator(buf, type_str, after_len, At)
              ELSE [status |-> -1, buf |-> buf, after_term |-> 0, after_len |-> after_len]
    IN IF at.status # 0
       THEN [status |-> 0, ops |-> InputCount(ic) \o <<AddSample(type, CStr(buf, 1), v.val)>>]
       ELSE LET r == str2double(at.buf, at.after_term) IN
            IF r.end = at.after_term
            THEN [status |-> -1, ops |-> InputCount(ic)]
            ELSE [status |-> 0,
                  ops |-> InputCount(ic) \o
                          <<AddSample(type, CStr(at.buf, 1), Magnify(v.val, r.val))>>]

\* One pass of the while loop on the command line buf (its '\n' already
\* replaced by NUL): status -1 is ERR_RET.
AsciiCommand(line, ic) ==
    LET c1 == buffer_after_terminator(line, 1, Len(line), Colon) IN
    IF c1.status # 0 THEN [status |-> -1, ops |-> <<>>]
    ELSE
    LET c2 == buffer_after_terminator(c1.buf, c1.after_term, c1.after_len, Pipe) IN
    IF c2.status # 0 THEN [status |-> -1, ops |-> <<>>]
    ELSE
    LET type0 == AsciiType(c2.buf[c2.after_term]) IN
    IF type0 = "UNKNOWN" THEN [status |-> -1, ops |-> <<>>]
    ELSE
    LET g == IF type0 = "GAUGE" THEN GaugeSwitch(c2.buf, c1.after_term)
             ELSE [type |-> type0, val_str |-> c1.after_term]
    IN AsciiStore(c2.buf, g.type, g.val_str, c2.after_term, c2.after_len, ic)

\* One pass of the while loop on the buffered bytes: status -2 when no
\* '\n' is buffered (return 0); otherwise the line is consumed and parsed.
AsciiPass(cbuf, ic) ==
    LET nl == MemChr(cbuf, 1, Len(cbuf), NL) IN
    IF nl = 0 THEN [status |-> -2, buf |-> cbuf, ops |-> <<>>]
    ELSE LET c == AsciiCommand(Append(SubSeq(cbuf, 1, nl - 1), NUL), ic)
         IN [status |-> c.status, buf |-> SubSeq(cbuf, nl + 1, Len(cbuf)), ops |-> c.ops]

\* handle_ascii_client_connect: commands are taken while a '\n' is buffered
RECURSIVE handle_ascii_client_connect(_, _, _)
AsciiLoop(c, ic, ops) ==
    IF c.status = -2 THEN [ret |-> 0, buf |-> c.buf, ops |-> ops]
    ELSE IF c.status = -1 THEN [ret |-> -1, buf |-> c.buf, ops |-> ops \o c.ops]
    ELSE handle_ascii_client_connect(c.buf, ic, ops \o c.ops)
handle_ascii_client_connect(cbuf, ic, ops) ==
    AsciiLoop(AsciiPass(cbuf, ic), ic, ops)

(* ---------------------- handle_binary_client_connect ------------------- *)
\* switch (cmd[1])
BinaryType(code) ==
    IF code = BIN_TYPE_KV THEN "KEY_VAL"
    ELSE IF code = BIN_TYPE_COUNTER THEN "COUNTER"
    ELSE IF code = BIN_TYPE_TIMER THEN "TIMER"
    ELSE IF code = BIN_TYPE_GAUGE THEN "GAUGE"
    ELSE IF code = BIN_TYPE_GAUGE_DELTA THEN "GAUGE_DELTA"
    ELSE IF code = BIN_TYPE_SET THEN "SET"
    ELSE "UNKNOWN"

\* the little-endian uint16_t at byte offset off of the buffer
U16(cbuf, off) == cbuf[off + 1] + 256 * cbuf[off + 2]

\* handle_binary_set: 0 done, -1 error, -2 missing data
handle_binary_set(cbuf, ic) ==
    LET key_len == U16(cbuf, 2)
        val_bytes == key_len + U16(cbuf, 4)
        need == MIN_BINARY_HEADER_SIZE + val_bytes
        key == MIN_BINARY_HEADER_SIZE + 1
        rest == SubSeq(cbuf, need + 1, Len(cbuf))
    IN IF Len(cbuf) < need THEN [status |-> -2, buf |-> cbuf, ops |-> <<>>]
       ELSE IF cbuf[key + key_len - 1] # NUL \/ cbuf[key + val_bytes - 1] # NUL
       THEN [status |-> -1, buf |-> rest, ops |-> <<>>]
       ELSE [status |-> 0, buf |-> rest,
             ops |-> InputCount(ic) \o
                     <<SetUpdate(CStr(cbuf, key), CStr(cbuf, key + key_len))>>]

\* A read that throws the buffered bytes away when the command is incomplete.
BinaryValueDropsPartial(cbuf, type, ic) ==
    LET key_len == U16(cbuf, 2)
        need == MAX_BINARY_HEADER_SIZE + key_len
        key == MAX_BINARY_HEADER_SIZE + 1
        rest == SubSeq(cbuf, need + 1, Len(cbuf))
    IN IF Len(cbuf) < need THEN [status |-> -2, buf |-> <<>>, ops |-> <<>>]
       ELSE IF cbuf[key + key_len - 1] # NUL
       THEN [status |-> -1, buf |-> rest, ops |-> <<>>]
       ELSE [status |-> 0, buf |-> rest,
             ops |-> InputCount(ic) \o
                     <<AddSample(type, CStr(cbuf, key), SubSeq(cbuf, 5, 12))>>]

\* the non-set commands: the 12-byte header, then the key; the value
\* *(double*)(cmd+4) is kept as its 8 bytes
BinaryValue(cbuf, type, ic) ==
    LET key_len == U16(cbuf, 2)
        need == MAX_BINARY_HEADER_SIZE + key_len
        key == MAX_BINARY_HEADER_SIZE + 1
        rest == SubSeq(cbuf, need + 1, Len(cbuf))
    IN IF Len(cbuf) < need THEN [status |-> -2, buf |-> cbuf, ops |-> <<>>]
       ELSE IF cbuf[key + key_len - 1] # NUL
       THEN [status |-> -1, buf |-> rest, ops |-> <<>>]
       ELSE [status |-> 0, buf |-> rest,
             ops |-> InputCount(ic) \o
                     <<AddSample(type, CStr(cbuf, key), SubSeq(cbuf, 5, 12))>>]

\* One pass of the while loop: status 0 continues, -2 waits for data
\* (return 0), -1 is ERR_RET.
BinaryCommand(cbuf, ic) ==
    IF Len(cbuf) < MIN_BINARY_HEADER_SIZE THEN [status |-> -2, buf |-> cbuf, ops |-> <<>>]
    ELSE IF cbuf[1] # BINARY_MAGIC_BYTE THEN [status |-> -1, buf |-> cbuf, ops |-> <<>>]
    ELSE IF BinaryType(cbuf[2]) = "UNKNOWN" THEN [status |-> -1, buf |-> cbuf, ops |-> <<>>]
    ELSE IF BinaryType(cbuf[2]) = "SET" THEN handle_binary_set(cbuf, ic)
    ELSE BinaryValue(cbuf, BinaryType(cbuf[2]), ic)

RECURSIVE handle_binary_client_connect(_, _, _)
\* the loop's exits: missing data returns 0, ERR_RET returns -1
BinaryLoop(c, ic, ops) ==
    IF c.status = -2 THEN [ret |-> 0, buf |-> c.buf, ops |-> ops]
    ELSE IF c.status = -1 THEN [ret |-> -1, buf |-> c.buf, ops |-> ops]
    ELSE handle_binary_client_connect(c.buf, ic, ops \o c.ops)
handle_binary_client_connect(cbuf, ic, ops) ==
    BinaryLoop(BinaryCommand(cbuf, ic), ic, ops)

(* ------------------------- handle_client_connect ----------------------- *)
\* The parser one invocation runs: it peeks the byte at the head of the
\* buffer.
ParserFor(cbuf) ==
    IF cbuf = <<>> THEN "none"
    ELSE IF cbuf[1] = BINARY_MAGIC_BYTE THEN "binary" ELSE "text"

handle_client_connect(cbuf, ic) ==
    LET p == ParserFor(cbuf) IN
    IF p = "none" THEN [ret |-> 0, buf |-> cbuf, ops |-> <<>>, parser |-> p]
    ELSE LET r == IF p = "binary" THEN handle_binary_client_connect(cbuf, ic, <<>>)
                  ELSE handle_ascii_client_connect(cbuf, ic, <<>>)
         IN [ret |-> r.ret, buf |-> r.buf, ops |-> r.ops, parser |-> p]

(* --------------------------- one connection ---------------------------- *)
\* name ":" value "|" type suffix "\n"
TextLine(name, value, type, suffix) ==
    name \o <<Colon>> \o value \o <<Pipe>> \o type \o suffix \o <<NL>>

\* value fields over '-', '.', '+', '1' and 'x'
ValueStrings ==
    UNION {[1..n -> {Minus, Dot, Plus, 49, 120}] : n \in 0..MaxValueLen}
\* the type letters c m k g s, the unknown letter 'z', and none
TypeFields == {<<Ch_c>>, <<Ch_m>>, <<Ch_k>>, <<Ch_g>>, <<Ch_s>>, <<122>>, <<>>}
\* no sample rate, "|@.5", "|@x", "|@2", "|@0"
Suffixes == {<<>>, <<Pipe, At, Dot, 53>>, <<Pipe, At, 120>>,
             <<Pipe, At, 50>>, <<Pipe, At, 48>>}

\* single lines named "a", and two lines that lack a separator
OneLineInputs ==
    {TextLine(<<97>>, v, t, x) : v \in ValueStrings, t \in TypeFields, x \in Suffixes}
    \cup {<<97, NL>>, <<97, Colon, 49, NL>>}

\* "a:1|c\n" and the same line with the one-byte name 0xAA
TextRecords == {<<97, Colon, 49, Pipe, Ch_c, NL>>,
                <<BINARY_MAGIC_BYTE, Colon, 49, Pipe, Ch_c, NL>>}
\* a counter "a" of value 1.0 and the set "a" with member "b"
BinaryRecords ==
    {<<BINARY_MAGIC_BYTE, BIN_TYPE_COUNTER, 2, 0, 0, 0, 0, 0, 0, 0, 240, 63, 97, NUL>>,
     <<BINARY_MAGIC_BYTE, BIN_TYPE_SET, 2, 0, 2, 0, 97, NUL, 98, NUL>>}

\* counter lines on the name "a" with a rate in (0, 1]:
\* "a:1|c|@.5\n" and "a:11|c|@1\n"
RateRecords == {<<97, Colon, 49, Pipe, Ch_c, Pipe, At, Dot, 53, NL>>,
                <<97, Colon, 49, 49, Pipe, Ch_c, Pipe, At, 49, NL>>}

RECURSIVE Flatten(_)
Flatten(recs) == IF recs = <<>> THEN <<>> ELSE Head(recs) \o Flatten(Tail(recs))
RecordSeqs(R) == UNION {[1..n -> R] : n \in 1..MaxRecords}

StreamInputs == {Flatten(rs) : rs \in RecordSeqs(TextRecords \cup BinaryRecords)}
RateInputs == {Flatten(rs) : rs \in RecordSeqs(RateRecords)}

\* gauge lines on the name "a": "a:5|g\n", "a:7|g\n", "a:-2|g\n", "a:+3|g\n"
GaugeLine(v) == TextLine(<<97>>, v, <<Ch_g>>, <<>>)
GaugeLines == {GaugeLine(v) : v \in {<<53>>, <<55>>, <<Minus, 50>>, <<Plus, 51>>}}
GaugeInputs ==
    {Flatten(rs) : rs \in UNION {[1..n -> GaugeLines] : n \in 1..MaxGaugeLines}}

\* Binary records by their fields. Keys and members: "", "a\0", "ab";
\* values: the doubles 0.0 and 1.0.
ByteStrings == {<<>>, <<97, NUL>>, <<97, 98>>}
DoubleBytes == {<<0, 0, 0, 0, 0, 0, 0, 0>>, <<0, 0, 0, 0, 0, 0, 240, 63>>}
FieldRecords ==
    [kind : {"value"}, key : ByteStrings, val : DoubleBytes]
    \cup [kind : {"set"}, key : ByteStrings, member : ByteStrings]
\* magic, type, key length, then value and key, or set length, key and member
Encode(rec) ==
    IF rec.kind = "value"
    THEN <<BINARY_MAGIC_BYTE, BIN_TYPE_COUNTER, Len(rec.key) % 256, Len(rec.key) \div 256>>
         \o rec.val \o rec.key
    ELSE <<BINARY_MAGIC_BYTE, BIN_TYPE_SET, Len(rec.key) % 256, Len(rec.key) \div 256,
           Len(rec.member) % 256, Len(rec.member) \div 256>>
         \o rec.key \o rec.member
\* a gauge "g" of value 0.0 that may follow the record
Trailers == {<<>>, <<BINARY_MAGIC_BYTE, BIN_TYPE_GAUGE, 2, 0, 0, 0, 0, 0, 0, 0, 0, 0, 103, NUL>>}
FieldInputs == {Encode(rec) \o tr : rec \in FieldRecords, tr \in Trailers}
\* text streams whose first byte is not 0xAA, and binary streams
ValidStreams ==
    {Flatten(rs) : rs \in {q \in RecordSeqs(TextRecords) : q[1][1] # BINARY_MAGIC_BYTE}}
    \cup {Flatten(rs) : rs \in RecordSeqs(BinaryRecords)}

ConnIdle ==
    /\ input = <<>>
    /\ delivered = 0
    /\ conn_buf = <<>>
    /\ reglog = <<>>
    /\ conn_ret = 0
    /\ parser_used = "none"

ConnInit ==
    /\ input \in OneLineInputs \cup StreamInputs \cup RateInputs \cup FieldInputs
                \cup GaugeInputs
    /\ delivered = 0
    /\ conn_buf = <<>>
    /\ reglog = <<>>
    /\ conn_ret = 0
    /\ parser_used = "none"

\* The next k bytes arrive and the networking layer invokes
\* handle_client_connect; a non-zero return closes the connection.
Deliver(k) ==
    /\ conn_ret = 0
    /\ delivered + k <= Len(input)
    /\ LET r == handle_client_connect(
                    conn_buf \o SubSeq(input, delivered + 1, delivered + k),
                    input_counter)
       IN /\ conn_buf' = r.buf
          /\ reglog' = reglog \o r.ops
          /\ conn_ret' = r.ret
          /\ parser_used' = r.parser
    /\ delivered' = delivered + k
    /\ UNCHANGED <<input, flushVars, fmtVars>>

(* ============================ the serializers ========================== *)
BIN_OUT_NO_TYPE == 0
BIN_OUT_SUM == 1
BIN_OUT_SUM_SQ == 2
BIN_OUT_MEAN == 3
BIN_OUT_COUNT == 4
BIN_OUT_STDDEV == 5
BIN_OUT_MIN == 6
BIN_OUT_MAX == 7
BIN_OUT_HIST_FLOOR == 8
BIN_OUT_HIST_BIN == 9
BIN_OUT_HIST_CEIL == 10
BIN_OUT_PCT == 128

\* A metric handed to the callback: its type and, for a timer, num_bins of
\* its histogram config (0: t->conf is NULL).
Metrics ==
    [type : {"KEY_VAL", "GAUGE", "COUNTER", "SET"}, num_bins : {0}]
    \cup [type : {"TIMER"}, num_bins : 0..MaxBins]

\* One write to the sink: what it is (tag: the statistic of a text line, the
\* value_type of a binary record, -1 for a STREAM_UINT bucket count), the
\* histogram bin it is labelled with (bin, -1 if none) and the index of
\* t->counts it reads (idx, -1 if none).
Write(tag, bin, idx) == [tag |-> tag, bin |-> bin, idx |-> idx]

\* for (i=0; i < num_bins-2; i++): the values i takes, and i after the loop
LoopBins(num_bins) == IF num_bins > 2 THEN num_bins - 2 ELSE 0

\* stream_formatter: the fprintf calls for one metric, in order
stream_formatter(metric) ==
    IF metric.type \in {"KEY_VAL", "GAUGE", "COUNTER", "SET"}
    THEN <<Write("value", -1, -1)>>
    ELSE IF metric.type = "TIMER"
    THEN <<Write("sum", -1, -1), Write("sum_sq", -1, -1), Write("mean", -1, -1),
           Write("lower", -1, -1), Write("upper", -1, -1), Write("count", -1, -1),
           Write("stdev", -1, -1), Write("median", -1, -1), Write("upper_90", -1, -1),
           Write("upper_95", -1, -1), Write("upper_99", -1, -1)>>
         \o (IF metric.num_bins = 0 THEN <<>>
             ELSE <<Write("bin_<", -1, 0)>>
                  \o [i \in 1..LoopBins(metric.num_bins) |-> Write("bin_", i - 1, i)]
                  \o <<Write("bin_>", -1, LoopBins(metric.num_bins) + 1)>>)
    ELSE <<>>

\* A binary formatter that writes the statistics in the text formatter's order.
stream_formatter_bin_text_order(metric) ==
    IF metric.type \in {"KEY_VAL", "GAUGE"}
    THEN <<Write(BIN_OUT_NO_TYPE, -1, -1)>>
    ELSE IF metric.type = "SET" THEN <<Write(BIN_OUT_SUM, -1, -1)>>
    ELSE IF metric.type \in {"COUNTER", "TIMER"}
    THEN <<Write(BIN_OUT_SUM, -1, -1), Write(BIN_OUT_SUM_SQ, -1, -1),
           Write(BIN_OUT_MEAN, -1, -1), Write(BIN_OUT_MIN, -1, -1),
           Write(BIN_OUT_MAX, -1, -1), Write(BIN_OUT_COUNT, -1, -1),
           Write(BIN_OUT_STDDEV, -1, -1)>>
    ELSE <<>>

\* stream_formatter_bin: the stream_bin_writer and STREAM_UINT calls for one
\* metric, in order
stream_formatter_bin(metric) ==
    IF metric.type \in {"KEY_VAL", "GAUGE"}
    THEN <<Write(BIN_OUT_NO_TYPE, -1, -1)>>
    ELSE IF metric.type = "SET" THEN <<Write(BIN_OUT_SUM, -1, -1)>>
    ELSE IF metric.type \in {"COUNTER", "TIMER"}
    THEN <<Write(BIN_OUT_SUM, -1, -1), Write(BIN_OUT_SUM_SQ, -1, -1),
           Write(BIN_OUT_MEAN, -1, -1), Write(BIN_OUT_COUNT, -1, -1),
           Write(BIN_OUT_STDDEV, -1, -1), Write(BIN_OUT_MIN, -1, -1),
           Write(BIN_OUT_MAX, -1, -1)>>
         \o (IF metric.type = "COUNTER" THEN <<>>
             ELSE <<Write(BIN_OUT_PCT + 50, -1, -1), Write(BIN_OUT_PCT + 90, -1, -1),
                    Write(BIN_OUT_PCT + 95, -1, -1), Write(BIN_OUT_PCT + 99, -1, -1)>>
                  \o (IF metric.num_bins = 0 THEN <<>>
                      ELSE <<Write(BIN_OUT_HIST_FLOOR, -1, -1), Write(-1, -1, 0)>>
                           \o [j \in 1..(2 * LoopBins(metric.num_bins)) |->
                                 IF j % 2 = 1
                                 THEN Write(BIN_OUT_HIST_BIN, (j - 1) \div 2, -1)
                                 ELSE Write(-1, -1, j \div 2)]
                           \o <<Write(BIN_OUT_HIST_CEIL, -1, -1),
                                Write(-1, -1, LoopBins(metric.num_bins) + 1)>>))
    ELSE <<>>

\* STREAM / STREAM_BIN / STREAM_UINT: the callback returns 1 at the first
\* write that fails; the writes before it have reached the sink.
Callback(metric, written) ==
    LET all == IF binary_stream THEN stream_formatter_bin(metric)
               ELSE stream_formatter(metric)
    IN IF fail_at > written /\ fail_at <= written + Len(all)
       THEN [ret |-> 1, out |-> SubSeq(all, 1, fail_at - written - 1)]
       ELSE [ret |-> 0, out |-> all]

\* the writes that have reached the sink
RECURSIVE Written(_)
Written(outs) == IF outs = <<>> THEN 0 ELSE Len(Head(outs)) + Written(Tail(outs))

FmtIdle ==
    /\ fmt_metrics = <<>>
    /\ binary_stream = FALSE
    /\ fail_at = 0
    /\ fmt_pos = 0
    /\ fmt_out = <<>>
    /\ fmt_res = 0
    /\ fmt_pc = "done"
    /\ fmt_destroyed = 0

\* flush_thread is started on a retired registry
FmtInit ==
    /\ fmt_metrics \in UNION {[1..n -> Metrics] : n \in 1..MaxMetrics}
    /\ binary_stream \in BOOLEAN
    /\ fail_at \in 0..MaxFailAt
    /\ fmt_pos = 0
    /\ fmt_out = <<>>
    /\ fmt_res = 0
    /\ fmt_pc = "stream"
    /\ fmt_destroyed = 0

\* stream_to_command calls the callback on the next metric
FmtMetric ==
    /\ fmt_pc = "stream"
    /\ fmt_res = 0
    /\ fmt_pos < Len(fmt_metrics)
    /\ LET c == Callback(fmt_metrics[fmt_pos + 1], Written(fmt_out)) IN
         /\ fmt_out' = Append(fmt_out, c.out)
         /\ fmt_res' = c.ret
    /\ fmt_pos' = fmt_pos + 1
    /\ UNCHANGED <<flushVars, connVars, fmt_metrics, binary_stream, fail_at, fmt_pc,
                   fmt_destroyed>>

\* stream_to_command returns: every metric was walked, or a callback failed
FmtReturn ==
    /\ fmt_pc = "stream"
    /\ fmt_res # 0 \/ fmt_pos = Len(fmt_metrics)
    /\ fmt_pc' = "destroy"
    /\ UNCHANGED <<flushVars, connVars, fmt_metrics, binary_stream, fail_at, fmt_pos,
                   fmt_out, fmt_res, fmt_destroyed>>

\* A cleanup that is skipped when streaming failed.
FmtDestroyOnSuccess ==
    /\ fmt_pc = "destroy"
    /\ fmt_destroyed' = IF fmt_res = 0 THEN fmt_destroyed + 1 ELSE fmt_destroyed
    /\ fmt_pc' = "done"
    /\ UNCHANGED <<flushVars, connVars, fmt_metrics, binary_stream, fail_at, fmt_pos,
                   fmt_out, fmt_res>>

\* flush_thread: destroy_metrics(m); free(m)
FmtDestroy ==
    /\ fmt_pc = "destroy"
    /\ fmt_destroyed' = fmt_destroyed + 1
    /\ fmt_pc' = "done"
    /\ UNCHANGED <<flushVars, connVars, fmt_metrics, binary_stream, fail_at, fmt_pos,
                   fmt_out, fmt_res>>

(* --------------------------- specifications ---------------------------- *)
Init == FlushInit /\ ConnIdle /\ FmtIdle

\* Ingress threads, the flush controller and the flush threads interleave
\* freely: nothing in conn_handler.c orders them.
Next ==
    \/ FitAlloc \/ FitSwap \/ FitCreate
    \/ FinalSwap \/ FinalCreate \/ FinalJoin
    \/ \E w \in DOMAIN workers : WorkerStream(w) \/ WorkerDestroy(w)
    \/ \E t \in Threads : IcLoad(t) \/ IcApply(t) \/ Load(t) \/ Apply(t)

Spec == Init /\ [][Next]_vars

\* A thread is between its first read of GLOBAL_METRICS and its last write.
InFlight(t) == thrPc[t] \notin {"idle", "done"}
CtlQuiet == ctlPc \in {"idle", "done"}
ThreadsQuiet == \A t \in Threads : ~InFlight(t)

\* Deliveries and rotation calls one after the other (never overlapping);
\* the flush threads still run beside both.
NextSeq ==
    \/ ThreadsQuiet /\ (FitAlloc \/ FinalSwap)
    \/ FitSwap \/ FitCreate \/ FinalCreate \/ FinalJoin
    \/ \E w \in DOMAIN workers : WorkerStream(w) \/ WorkerDestroy(w)
    \/ \E t \in Threads :
         CtlQuiet /\ (IcLoad(t) \/ IcApply(t) \/ Load(t) \/ Apply(t))

SpecSeq == Init /\ [][NextSeq]_vars

\* The flush controller called in any order, final_flush included, beside the
\* flush threads and the clock; no ingress.
NextCtl ==
    \/ FitAlloc \/ FitSwap \/ FitCreate
    \/ FinalSwap \/ FinalCreate \/ FinalJoin
    \/ CallAfterFinal
    \/ \E w \in DOMAIN workers : WorkerStream(w) \/ WorkerDestroy(w)
    \/ Tick

SpecCtl == Init /\ [][NextCtl]_vars
\* One flush thread serializing one retired registry.
InitFmt == FlushInit /\ ConnIdle /\ FmtInit
NextFmt == FmtMetric \/ FmtReturn \/ FmtDestroy
SpecFmt == InitFmt /\ [][NextFmt]_vars

\* One connection fed in chunks of any size, without rotation.
InitConn == FlushInit /\ ConnInit /\ FmtIdle
NextConn == \E k \in 1..(Len(input) - delivered) : Deliver(k)
SpecConn == InitConn /\ [][NextConn]_vars

(* ======================= claims: flush protocol ======================== *)
\* Thread t takes a step that writes a registry through its pointer.
WriteStep(t) == thrPc[t] \in {"ic_apply", "apply"} /\ thrPc'[t] # thrPc[t]
Streamed(w) == workers[w].pc \in {"streamed", "done"}
\* The samples delivered in full during epoch e.
DeliveredIn(e) == {t \in Threads : thrPc[t] = "done" /\ thrEpoch[t] = e}

\* C1: no add_sample straddles a rotation: every write an ingress thread makes
\* goes to the registry that is current when the write happens, so a registry
\* retired by a swap is never written again.
C1_NoWriteToRetired ==
    [][\A t \in Threads : WriteStep(t) => thrPtr[t] = GLOBAL_METRICS]_vars

\* C2: no ingress thread accesses a registry after flush_thread destroyed it.
C2_NoUseAfterDestroy ==
    [][\A t \in Threads :
          WriteStep(t) => (thrPtr[t] = NULL \/ regState[thrPtr[t]] # "destroyed")]_vars

\* C3: epoch isolation, for deliveries and rotations that follow one another:
\* a registry not yet installed is empty, the current registry and every
\* flush hold exactly the samples delivered in their own epoch (none from
\* another, none missing), and no sample is in two flushes.
C3_EpochIsolation ==
    /\ \A r \in Regs : regState[r] = "new" => (contents[r] = {} /\ icount[r] = 0)
    /\ \A r \in Regs : regState[r] = "live" => contents[r] = DeliveredIn(r - 1)
    /\ \A w \in DOMAIN workers : Streamed(w) => workers[w].out = DeliveredIn(w - 1)
    /\ \A w1, w2 \in DOMAIN workers :
          w1 # w2 => workers[w1].out \cap workers[w2].out = {}

\* C3 witness: two rotations have each flushed a sample of their own epoch.
C3_Witness ==
    \E w1, w2 \in DOMAIN workers :
        /\ w1 # w2 /\ Streamed(w1) /\ Streamed(w2)
        /\ workers[w1].out # {} /\ workers[w2].out # {}

\* C7: once final_flush has returned GLOBAL_METRICS is NULL, and every write
\* (input counter or sample) of a delivery begun after that goes through the
\* null pointer, changes no registry and raises no fault.
C7_NoopAfterFinalFlush ==
    [][/\ ctlPc' = "done" => GLOBAL_METRICS' = NULL
       /\ \A t \in Threads :
            (Late(t) /\ WriteStep(t)) =>
                (thrPtr[t] = NULL /\ UNCHANGED regVars /\ ~fault')]_vars

\* C7 witness: with the input counter configured, a sample was delivered in
\* full after final_flush returned.
C7_Witness ==
    \E t \in Threads : input_counter /\ thrPc[t] = "done" /\ Late(t)

\* C8: when final_flush has returned, the thread it started has serialized
\* the last registry and destroyed it.
C8_FinalFlushJoins ==
    ctlPc = "done" =>
        \A w \in DOMAIN workers :
            ~workers[w].detached =>
                /\ workers[w].pc = "done"
                /\ regState[workers[w].m] = "destroyed"

\* C8 witness: final_flush has returned while a detached thread started by an
\* earlier flush_interval_trigger (which returned long before) still runs.
C8_Witness ==
    /\ ctlPc = "done"
    /\ \E w \in DOMAIN workers : workers[w].detached /\ workers[w].pc # "done"

\* C15: while the process has not crashed, an ingress thread inside the
\* handler can always take its next step (the input-counter write, the read
\* of GLOBAL_METRICS, the sample write), whatever the flush threads are doing.
C15_IngressNeverBlocks ==
    ~fault =>
        \A t \in Threads :
            /\ thrPc[t] = "ic_apply" => ENABLED IcApply(t)
            /\ thrPc[t] = "load" => ENABLED Load(t)
            /\ thrPc[t] = "apply" => ENABLED Apply(t)

\* C15 witness: a thread has finished a delivery that it began after a flush
\* thread was created, and that flush thread has still not streamed.
C15_Witness ==
    \E t \in Threads : \E w \in DOMAIN workers :
        /\ thrPc[t] = "done"
        /\ thrEpoch[t] >= w
        /\ workers[w].detached
        /\ workers[w].pc = "run"

\* C16: the timestamp a flush carries is the clock value at which its
\* registry was swapped out, and the timestamps of successive flushes are in
\* the order of their rotations.
C16_RotationTimestamp ==
    /\ \A w \in DOMAIN workers : Streamed(w) => workers[w].tv = workers[w].swap
    /\ \A v, w \in DOMAIN workers :
         (v < w /\ Streamed(v) /\ Streamed(w)) => workers[v].tv <= workers[w].tv

\* C19: no flush thread is started on the null pointer, no registry is handed
\* to two flush threads, and every registry that is no longer current has a
\* flush thread once the call that retired it has created one.
C19_Lifecycle ==
    /\ \A w \in DOMAIN workers : workers[w].m # NULL
    /\ \A v, w \in DOMAIN workers : v # w => workers[v].m # workers[w].m
    /\ ~fault
    /\ ctlPc \in {"idle", "done"} =>
         \A r \in Regs : (regState[r] = "live" /\ r # GLOBAL_METRICS) =>
             \E w \in DOMAIN workers : workers[w].m = r

\* C21: the input-counter increment and the sample it counts land in the same
\* registry: with only flush_interval_trigger called so far and every delivery
\* that began returned, every flushed registry shows an input count equal to
\* the number of samples it holds.
C21_CounterWithSample ==
    (input_counter /\ ThreadsQuiet /\ ctlPc \in {"idle", "fit_swap", "fit_create"}) =>
        \A w \in DOMAIN workers :
            Streamed(w) => workers[w].ic = Cardinality(workers[w].out)

(* ========================= claims: connections ========================= *)
Delivered == delivered = Len(input)
IcCalls == {i \in DOMAIN reglog : reglog[i].ic}
SampleCalls == {i \in DOMAIN reglog : ~reglog[i].ic}
\* the value a numeric field stands for
FieldValue(v) == str2double(v \o <<NUL>>, 1).val

\* C4: a valid stream fed in pieces ends without error and with the same
\* registry calls as the same stream fed in one invocation.
C4_PartialReadSameAsWhole ==
    input \in ValidStreams =>
        /\ conn_ret = 0
        /\ Delivered =>
             LET w == handle_client_connect(input, input_counter)
             IN reglog = w.ops /\ conn_ret = w.ret /\ conn_buf = w.buf

\* C5: every invocation on a connection runs the parser that the first byte
\* ever received selects.
C5_ModeFixed ==
    delivered > 0 =>
        parser_used = IF input[1] = BINARY_MAGIC_BYTE THEN "binary" ELSE "text"

\* C6 as claimed: a 'g' line whose value starts with '+' has the '+' consumed
\* and is ingested as GAUGE; with '-' it is a GAUGE_DELTA of the signed value;
\* otherwise a GAUGE.
C6_PlusStaysGauge ==
    \A v \in ValueStrings :
        (input = TextLine(<<97>>, v, <<Ch_g>>, <<>>) /\ Delivered /\ conn_ret = 0) =>
            /\ SampleCalls # {}
            /\ LET op == reglog[Len(reglog)] IN
                 IF v # <<>> /\ v[1] = Plus
                 THEN op.type = "GAUGE" /\ op.val = FieldValue(Tail(v))
                 ELSE IF v # <<>> /\ v[1] = Minus
                 THEN op.type = "GAUGE_DELTA" /\ op.val = FieldValue(v)
                 ELSE op.type = "GAUGE" /\ op.val = FieldValue(v)

\* C6 amended: a 'g' line whose value starts with '+' has the '+' consumed and
\* is ingested as GAUGE_DELTA; with '-' the sign is kept and it is a
\* GAUGE_DELTA; otherwise it is a GAUGE.
C6_PlusIsGaugeDelta ==
    (Delivered /\ conn_ret = 0) =>
    \A v \in ValueStrings :
        input = TextLine(<<97>>, v, <<Ch_g>>, <<>>) =>
            /\ SampleCalls # {}
            /\ LET op == reglog[Len(reglog)] IN
                 IF v # <<>> /\ v[1] = Plus
                 THEN op.type = "GAUGE_DELTA" /\ op.val = FieldValue(Tail(v))
                 ELSE IF v # <<>> /\ v[1] = Minus
                 THEN op.type = "GAUGE_DELTA" /\ op.val = FieldValue(v)
                 ELSE op.type = "GAUGE" /\ op.val = FieldValue(v)

\* C6 witness: "a:+1|g\n" was accepted as a GAUGE_DELTA of 1.
C6_Witness ==
    /\ input = TextLine(<<97>>, <<Plus, 49>>, <<Ch_g>>, <<>>)
    /\ Delivered /\ conn_ret = 0
    /\ reglog # <<>>
    /\ reglog[Len(reglog)].type = "GAUGE_DELTA"
    /\ reglog[Len(reglog)].val = <<1, 1>>

\* C9: with input_counter configured, the counter is incremented once per
\* sample added and never for a rejected line.
C9_InputCounterCountsSamples ==
    input_counter => Cardinality(IcCalls) = Cardinality(SampleCalls)

\* the field holds no digit in the prefix  -? digits (. digits)?
NoDigitParsed(v) ==
    LET u == IF v # <<>> /\ v[1] = Minus THEN Tail(v) ELSE v IN
    /\ ~(u # <<>> /\ IsDigit(u[1]))
    /\ ~(Len(u) >= 2 /\ u[1] = Dot /\ IsDigit(u[2]))

\* C10: a counter, timer or key/value line whose value has no digit in its
\* parsed prefix is rejected with an error and adds no sample.
C10_NoDigitIsError ==
    \A v \in ValueStrings : \A t \in {<<Ch_c>>, <<Ch_m>>, <<Ch_k>>} :
        (input = TextLine(<<97>>, v, t, <<>>) /\ Delivered /\ NoDigitParsed(v)) =>
            (conn_ret = -1 /\ SampleCalls = {})

\* the sum of two fractions, and the product of a fraction and the inverse of
\* another
RatAdd(a, b) == Rat(a[1] * b[2] + b[1] * a[2], a[2] * b[2])
RatDiv(a, b) == Rat(a[1] * b[2], a[2] * b[1])
\* The counter accumulator of a name after the logged calls: its sum and its
\* count.
RECURSIVE CounterSum(_, _)
CounterSum(log, key) ==
    IF log = <<>> THEN <<0, 1>>
    ELSE LET op == log[Len(log)]
             before == CounterSum(SubSeq(log, 1, Len(log) - 1), key)
         IN IF ~op.ic /\ op.type = "COUNTER" /\ op.key = key
            THEN RatAdd(before, op.val) ELSE before
CounterCount(log, key) ==
    Cardinality({i \in DOMAIN log :
                    ~log[i].ic /\ log[i].type = "COUNTER" /\ log[i].key = key})

\* the rate a numeric sample-rate suffix carries: "|@.5", "|@2", "|@0"
RateSuffixes == {<<Pipe, At, Dot, 53>>, <<Pipe, At, 50>>, <<Pipe, At, 48>>}
RateOf(x) ==
    IF x = <<Pipe, At, Dot, 53>> THEN <<1, 2>>
    ELSE IF x = <<Pipe, At, 50>> THEN <<2, 1>>
    ELSE <<0, 1>>
\* the value the line ingests when it carries no sample rate
Unsuffixed(v, t) ==
    LET w == handle_client_connect(TextLine(<<97>>, v, t, <<>>), FALSE)
    IN w.ops[Len(w.ops)].val
\* what each of the RateRecords adds to the counter: 1/.5 and 11/1
RateRecordValue(rec) == IF rec[4] = Pipe THEN <<2, 1>> ELSE <<11, 1>>
RECURSIVE SumOfRecords(_)
SumOfRecords(rs) ==
    IF rs = <<>> THEN <<0, 1>>
    ELSE RatAdd(RateRecordValue(Head(rs)), SumOfRecords(Tail(rs)))

\* C11: a counter line with rate r ingests value/r when 0 < r <= 1 and the
\* unscaled value otherwise; a rate on a line of another type leaves the value
\* as it is; n counter lines with rates in (0,1] on one name add up to the sum
\* of value/rate with count n.
C11_SampleRate ==
    Delivered =>
    /\ conn_ret = 0 =>
       \A v \in ValueStrings : \A x \in RateSuffixes :
       \A t \in {<<Ch_c>>, <<Ch_m>>, <<Ch_k>>, <<Ch_g>>} :
         input = TextLine(<<97>>, v, t, x) =>
            /\ Cardinality(SampleCalls) = 1
            /\ reglog[Len(reglog)].val =
                 IF t = <<Ch_c>> /\ RateOf(x)[1] > 0 /\ RateOf(x)[1] <= RateOf(x)[2]
                 THEN RatDiv(Unsuffixed(v, t), RateOf(x))
                 ELSE Unsuffixed(v, t)
    /\ \A rs \in RecordSeqs(RateRecords) :
         input = Flatten(rs) =>
            /\ conn_ret = 0
            /\ CounterSum(reglog, <<97>>) = SumOfRecords(rs)
            /\ CounterCount(reglog, <<97>>) = Len(rs)

\* C11 witness: "a:1|c|@.5\n" was ingested as 2, and "a:1|c|@2\n" as 1.
C11_Witness ==
    /\ Delivered /\ conn_ret = 0 /\ reglog # <<>>
    /\ \/ /\ input = TextLine(<<97>>, <<49>>, <<Ch_c>>, <<Pipe, At, Dot, 53>>)
          /\ reglog[Len(reglog)].val = <<2, 1>>
       \/ /\ input = Flatten(<<TextLine(<<97>>, <<49>>, <<Ch_c>>, <<Pipe, At, Dot, 53>>),
                               TextLine(<<97>>, <<49, 49>>, <<Ch_c>>, <<Pipe, At, 49>>)>>)
          /\ CounterSum(reglog, <<97>>) = <<13, 1>>

\* the sequences of well-formed binary records, and their byte streams
BinarySeqs == RecordSeqs(BinaryRecords)
BinaryStreams == {Flatten(rs) : rs \in BinarySeqs}
\* the byte offsets at which the records of a stream end (and 0)
RecordEnds(rs) == {Len(Flatten(SubSeq(rs, 1, i))) : i \in 0..Len(rs)}
\* the bytes the parsers have consumed from the connection
Consumed == delivered - Len(conn_buf)

\* C12: on a stream of well-formed binary records, whatever the chunking,
\* every invocation returns 0, the bytes consumed are exactly the records that
\* have arrived in full, the rest of what arrived is still buffered, and the
\* registry has taken one sample per consumed record.
C12_AtomicRecords ==
    input \in BinaryStreams =>
    \A rs \in BinarySeqs :
        input = Flatten(rs) =>
            /\ conn_ret = 0
            /\ parser_used \in {"none", "binary"}
            /\ Consumed \in RecordEnds(rs)
            /\ \A e \in RecordEnds(rs) : e <= delivered => e <= Consumed
            /\ conn_buf = SubSeq(input, Consumed + 1, delivered)
            /\ Cardinality(SampleCalls) =
                 Cardinality({e \in RecordEnds(rs) : e > 0 /\ e <= delivered})

\* C12 witness: one record was consumed and the header of the next one, but
\* not all of it, is buffered.
C12_Witness ==
    /\ input \in BinaryStreams
    /\ Cardinality(SampleCalls) = 1
    /\ Len(conn_buf) >= MIN_BINARY_HEADER_SIZE
    /\ delivered < Len(input)
    /\ conn_ret = 0

\* The key (or member) ends in NUL at its declared length.
Terminated(str) == str # <<>> /\ str[Len(str)] = NUL
WellFormed(rec) ==
    Terminated(rec.key) /\ (rec.kind = "set" => Terminated(rec.member))
\* the string without its terminator
Chars(str) == SubSeq(str, 1, Len(str) - 1)

\* C13: a binary record is accepted only when its key (and member) end in
\* NUL at the declared length; otherwise it is a framing error that adds no
\* sample; an accepted key and member are the declared bytes of the record.
C13_NulTerminated ==
    \A rec \in FieldRecords : \A tr \in Trailers :
        (input = Encode(rec) \o tr /\ Delivered) =>
            IF WellFormed(rec)
            THEN /\ conn_ret = 0
                 /\ Cardinality(SampleCalls) = (IF tr = <<>> THEN 1 ELSE 2)
                 /\ LET op == reglog[CHOOSE i \in SampleCalls :
                                        \A j \in SampleCalls : i <= j]
                    IN /\ op.key = Chars(rec.key)
                       /\ rec.kind = "set" => op.val = Chars(rec.member)
            ELSE conn_ret = -1 /\ SampleCalls = {}

\* The gauge accumulator of a name after the logged calls: a GAUGE sample
\* replaces the value, a GAUGE_DELTA sample adds to it, starting from 0.
RECURSIVE GaugeValue(_, _)
GaugeValue(log, key) ==
    IF log = <<>> THEN <<0, 1>>
    ELSE LET op == log[Len(log)]
             before == GaugeValue(SubSeq(log, 1, Len(log) - 1), key)
         IN IF op.ic \/ op.key # key THEN before
            ELSE IF op.type = "GAUGE" THEN op.val
            ELSE IF op.type = "GAUGE_DELTA" THEN RatAdd(before, op.val)
            ELSE before
\* the last absolute sample of the name (0 if none), and the deltas after it
LastAbsolute(log, key) ==
    LET abs == {i \in DOMAIN log : ~log[i].ic /\ log[i].key = key /\ log[i].type = "GAUGE"}
    IN IF abs = {} THEN 0 ELSE CHOOSE i \in abs : \A j \in abs : j <= i
RECURSIVE SumDeltas(_, _, _)
SumDeltas(log, key, from) ==
    IF from > Len(log) THEN <<0, 1>>
    ELSE LET op == log[from]
             rest == SumDeltas(log, key, from + 1)
         IN IF ~op.ic /\ op.key = key /\ op.type = "GAUGE_DELTA"
            THEN RatAdd(op.val, rest) ELSE rest

\* C14: the gauge of a name is its last absolute sample (0 if none) plus the
\* deltas after it; the lines g:5 g:7 g:-2 give 5, the lines g:5 g:-2 g:-2
\* give 1, and the single line g:+3 gives 3.
C14_GaugeFolding ==
    (Delivered /\ input \in GaugeInputs) =>
        /\ conn_ret = 0
        /\ LET last == LastAbsolute(reglog, <<97>>) IN
             GaugeValue(reglog, <<97>>) =
                RatAdd(IF last = 0 THEN <<0, 1>> ELSE reglog[last].val,
                       SumDeltas(reglog, <<97>>, last + 1))
        /\ input = Flatten(<<GaugeLine(<<53>>), GaugeLine(<<55>>), GaugeLine(<<Minus, 50>>)>>)
             => GaugeValue(reglog, <<97>>) = <<5, 1>>
        /\ input = Flatten(<<GaugeLine(<<53>>), GaugeLine(<<Minus, 50>>), GaugeLine(<<Minus, 50>>)>>)
             => GaugeValue(reglog, <<97>>) = <<1, 1>>
        /\ input = GaugeLine(<<Plus, 51>>)
             => GaugeValue(reglog, <<97>>) = <<3, 1>>

\* C14 witness: the lines g:5 g:7 g:-2 were taken and the gauge is 5.
C14_Witness ==
    /\ input = Flatten(<<GaugeLine(<<53>>), GaugeLine(<<55>>), GaugeLine(<<Minus, 50>>)>>)
    /\ Delivered
    /\ Cardinality(SampleCalls) = 3
    /\ GaugeValue(reglog, <<97>>) = <<5, 1>>

(* ========================== claims: serializers ======================== *)
\* the tags of a callback's writes, in order
Tags(out) == [i \in DOMAIN out |-> out[i].tag]
\* the seven statistics, the four percentiles, and the histogram records of
\* n buckets, each followed by its bucket count (-1)
SevenStats == <<BIN_OUT_SUM, BIN_OUT_SUM_SQ, BIN_OUT_MEAN, BIN_OUT_COUNT,
                BIN_OUT_STDDEV, BIN_OUT_MIN, BIN_OUT_MAX>>
FourPercentiles == <<178, 218, 223, 227>>
RECURSIVE BinPairs(_)
BinPairs(k) == IF k <= 0 THEN <<>> ELSE <<BIN_OUT_HIST_BIN, -1>> \o BinPairs(k - 1)
HistogramTags(n) ==
    <<BIN_OUT_HIST_FLOOR, -1>> \o BinPairs(n - 2) \o <<BIN_OUT_HIST_CEIL, -1>>
\* the labels of the linear-bin records of a callback, in order of writing
BinLabels(out) ==
    LET at == {i \in DOMAIN out : out[i].tag = BIN_OUT_HIST_BIN}
    IN [i \in at |-> out[i].bin]

RECURSIVE WritesOf(_)
WritesOf(ms) ==
    IF ms = <<>> THEN 0
    ELSE Len(IF binary_stream THEN stream_formatter_bin(Head(ms))
             ELSE stream_formatter(Head(ms)))
         + WritesOf(Tail(ms))
\* the failing write is one the flush would make
Fails == fail_at > 0 /\ fail_at <= WritesOf(fmt_metrics)

\* C18: when a write fails, the callback stops there and reports failure: the
\* sink holds exactly the writes before it and no later metric is formatted;
\* whether or not a write fails, the registry is destroyed exactly once.
C18_FailureStillDestroys ==
    /\ fmt_destroyed <= 1
    /\ fmt_pc = "done" => fmt_destroyed = 1
    /\ fmt_pc = "stream" => fmt_destroyed = 0
    /\ Written(fmt_out) < fail_at \/ ~Fails
    /\ (Fails /\ fmt_pc # "stream") =>
         /\ fmt_res # 0
         /\ Written(fmt_out) = fail_at - 1
         /\ WritesOf(SubSeq(fmt_metrics, 1, fmt_pos - 1)) < fail_at
         /\ WritesOf(SubSeq(fmt_metrics, 1, fmt_pos)) >= fail_at
    /\ (~Fails /\ fmt_pc # "stream") =>
         fmt_res = 0 /\ fmt_pos = Len(fmt_metrics)

\* C18 witness: a write in the first of two metrics failed after some writes
\* had succeeded, the second metric was not formatted, and the registry has
\* been destroyed.
C18_Witness ==
    /\ fmt_pc = "done"
    /\ fmt_res # 0
    /\ Len(fmt_metrics) = 2 /\ fmt_pos = 1
    /\ Written(fmt_out) > 0
    /\ fmt_destroyed = 1

\* the indexes of t->counts a callback read, in order
CountReads(out) ==
    LET at == {i \in DOMAIN out : out[i].idx >= 0}
    IN [i \in at |-> out[i].idx]

\* C20: for a timer with a histogram of num_bins >= 1 buckets both
\* serializers write num_bins histogram records, read only counts[0] to
\* counts[num_bins-1], and read each of them once.
C20_HistogramBuckets ==
    fail_at = 0 =>
        \A j \in DOMAIN fmt_out :
            LET metric == fmt_metrics[j]
                reads == CountReads(fmt_out[j])
            IN (metric.type = "TIMER" /\ metric.num_bins >= 1) =>
                 /\ Cardinality(DOMAIN reads) = metric.num_bins
                 /\ \A i \in DOMAIN reads : reads[i] \in 0..(metric.num_bins - 1)
                 /\ \A a, b \in DOMAIN reads : reads[a] = reads[b] => a = b
====
